---- MODULE Spec2Model ----
(***************************************************************************)
(* Model of drivers/pinctrl/bcm/pinctrl_bcm2835_rust.rs: the BCM2835 GPIO  *)
(* chip operations, the function-select read-modify-write and the register *)
(* accessors, one atomic step per register access.                         *)
(***************************************************************************)
EXTENDS Integers, Sequences, FiniteSets, TLC

(***************************************************************************)
(* 32-bit words.  A u32 is the set of the positions of its 1 bits, so the  *)
(* bit operations are exact on all 32 bits: a left shift drops the bits    *)
(* that leave the word, as the u32 shift of the source does.               *)
(***************************************************************************)
WordBits == 32

Bits == 0 .. (WordBits - 1)

\* The word of a number n < 2^31.
U32(n) == {i \in 0 .. (WordBits - 2) : (n \div (2 ^ i)) % 2 = 1}

RECURSIVE WordVal(_)
\* The number of a word whose bit 31 is clear.
WordVal(w) ==
    IF w = {} THEN 0
    ELSE LET b == CHOOSE x \in w : TRUE IN (2 ^ b) + WordVal(w \ {b})

Shl(w, n) == {b + n : b \in w} \cap Bits

Shr(w, n) == {b - n : b \in {x \in w : x >= n}}

And(a, b) == a \cap b

Or(a, b) == a \cup b

Not(w) == Bits \ w

\* kernel::bit(n): the word with bit n alone set.
bit(n) == {n}

(***************************************************************************)
(* Register offsets and constants.                                         *)
(***************************************************************************)
GPFSEL0 == 0

GPSET0 == 28

GPCLR0 == 40

GPLEV0 == 52

GPIO_SIZE == 4096

BCM2835_NUM_GPIOS == 54

BCM2835_FSEL_MASK == 7

BCM2835_FSEL_GPIO_IN == 0

BCM2835_FSEL_GPIO_OUT == 1

(***************************************************************************)
(* Address macros.                                                         *)
(***************************************************************************)
FSEL_REG(p) == GPFSEL0 + ((p \div 10) * 4)

\* Faulty variant: four bits a field.
FSEL_SHIFT_nibble(p) == (p % 10) * 4

FSEL_SHIFT(p) == (p % 10) * 3

\* Faulty variant: the byte of the pin's bit, not its word.
GPIO_REG_OFFSET_byte(p) == p \div 8

GPIO_REG_OFFSET(p) == p \div 32

GPIO_REG_SHIFT(p) == p % 32

(***************************************************************************)
(* Bounds of the model.                                                    *)
(***************************************************************************)
\* Chip operations one consumer invokes in a behaviour.
MaxCalls == 2

Pins == 0 .. (BCM2835_NUM_GPIOS - 1)

Codes == 0 .. BCM2835_FSEL_MASK

\* The constants of the function-select field as u32 words.
FselMask == U32(BCM2835_FSEL_MASK)

GpioIn == U32(BCM2835_FSEL_GPIO_IN)

GpioOut == U32(BCM2835_FSEL_GPIO_OUT)

\* The function codes as words.
CodeWords == {U32(c) : c \in Codes}

Consumers == {1, 2}

FselRegs == {FSEL_REG(p) : p \in Pins}

LevRegs == {GPLEV0 + GPIO_REG_OFFSET(p) * 4 : p \in Pins}

SetRegs == {GPSET0 + GPIO_REG_OFFSET(p) * 4 : p \in Pins}

ClrRegs == {GPCLR0 + GPIO_REG_OFFSET(p) * 4 : p \in Pins}

VARIABLES
    regs,     \* the function-select and level registers: offset -> word
    latch,    \* the output latches driven through GPSETn / GPCLRn: bank -> word
    present,  \* the device resources (the register window) are not revoked
    line,     \* the GPIO line each consumer holds
    pc,       \* where each consumer is in its chip operation
    frame,    \* the arguments and locals of each consumer's operation
    ret,      \* what the last operation of each consumer returned
    log,      \* the register accesses of each consumer's current operation
    snap,     \* the hardware state when the current operation was invoked
    ncalls,   \* operations invoked so far by each consumer
    expect    \* per pin, the code last set by a successful direction change

vars == <<regs, latch, present, line, pc, frame, ret, log, snap, ncalls, expect>>

(***************************************************************************)
(* The register window and the hardware behind it.                         *)
(***************************************************************************)
\* IoMem<GPIO_SIZE>: an access must be word-aligned and inside the window.
offset_ok(reg) == reg % 4 = 0 /\ reg + 4 <= GPIO_SIZE

\* What a read of a register returns: the set and clear registers are
\* write-only and read as zero.
HwRead(reg) == IF reg \in DOMAIN regs THEN regs[reg] ELSE {}

\* The registers after a write: the function-select registers store the
\* word, the level registers are read-only.
HwWriteRegs(reg, val) ==
    IF reg \in FselRegs THEN [regs EXCEPT ![reg] = val] ELSE regs

\* The output latches after a write: a 1 written to GPSETn sets the latch of
\* that pin, a 1 written to GPCLRn clears it, a 0 leaves it.
HwWriteLatch(reg, val) ==
    IF reg \in SetRegs
    THEN [latch EXCEPT ![(reg - GPSET0) \div 4] = Or(@, val)]
    ELSE IF reg \in ClrRegs
         THEN [latch EXCEPT ![(reg - GPCLR0) \div 4] = And(@, Not(val))]
         ELSE latch

try_readl(reg) ==
    IF offset_ok(reg) THEN [res |-> "ok", v |-> HwRead(reg)]
    ELSE [res |-> "EINVAL", v |-> {}]

try_writel(reg) == IF offset_ok(reg) THEN "ok" ELSE "EINVAL"

(***************************************************************************)
(* Register accessors of the driver.                                       *)
(***************************************************************************)
\* data.resources().ok_or(ENXIO)?, then the read.
bcm2835_gpio_rd(reg) ==
    IF ~present THEN [res |-> "ENXIO", v |-> {}] ELSE try_readl(reg)

\* Faulty variant: the write without the look at the resources.
gpio_wr_unchecked(reg) == try_writel(reg)

\* data.resources().ok_or(ENXIO)?, then the write: the outcome of the write.
bcm2835_gpio_wr(reg) == IF ~present THEN "ENXIO" ELSE try_writel(reg)

\* The 3-bit field of pin in the function-select word val.
fsel_cur(val, pin) == And(Shr(val, FSEL_SHIFT(pin)), FselMask)

\* Faulty variant: the mask not inverted, val &= MASK << shift.
fsel_merge_keepmask(val, pin, fsel) ==
    Or(And(val, Shl(FselMask, FSEL_SHIFT(pin))),
       Shl(fsel, FSEL_SHIFT(pin)))

\* Faulty variant: the field not cleared, only val |= fsel << shift.
fsel_merge_noclear(val, pin, fsel) == Or(val, Shl(fsel, FSEL_SHIFT(pin)))

\* val &= !(MASK << shift); val |= fsel << shift.
fsel_merge(val, pin, fsel) ==
    Or(And(val, Not(Shl(FselMask, FSEL_SHIFT(pin)))),
       Shl(fsel, FSEL_SHIFT(pin)))

\* The word bcm2835_pinctrl_fsel_set writes in its transition step.
fsel_trans_val(val, pin, fsel) == fsel_merge(val, pin, fsel)

\* Faulty variant: no early return.
fsel_same_never(cur, fsel) == FALSE

\* cur == fsel: nothing to do.
fsel_same(cur, fsel) == cur = fsel

\* Faulty variant: || for &&.
fsel_needs_trans_or(cur, fsel) ==
    cur # GpioIn \/ fsel # GpioIn

\* cur != GPIO_IN && fsel != GPIO_IN: the transition write is made.
fsel_needs_trans(cur, fsel) ==
    cur # GpioIn /\ fsel # GpioIn

\* Faulty variant: the outcome of the transition write is not looked at.
trans_wr_unchecked(res) == TRUE

\* bcm2835_gpio_wr(...)? of the transition write: go on only when it landed.
trans_wr_ok(res) == res = "ok"

bcm2835_pinctrl_fsel_get(pin) ==
    LET r == bcm2835_gpio_rd(FSEL_REG(pin))
    IN  IF r.res = "ok" THEN [res |-> "ok", v |-> fsel_cur(r.v, pin)] ELSE r

\* The register and the word of bcm2835_gpio_set_bit(reg, offset).
set_bit_reg(reg, offset) == reg + GPIO_REG_OFFSET(offset) * 4

\* Faulty variant: every bit up to the pin's, (1 << (shift + 1)) - 1.
set_bit_val_upto(offset) == 0 .. GPIO_REG_SHIFT(offset)

set_bit_val(offset) == bit(GPIO_REG_SHIFT(offset))

\* Faulty variant: the outcome of the level write is not looked at.
set_bit_unchecked(res) == TRUE

\* bcm2835_gpio_set_bit(...)? in direction_output: go on only when it landed.
set_bit_ok(res) == res = "ok"

\* Faulty variant: the two registers taken for each other.
level_reg_swapped(value) == IF value THEN GPCLR0 ELSE GPSET0

\* if value { GPSET0 } else { GPCLR0 }
level_reg(value) == IF value THEN GPSET0 ELSE GPCLR0

\* Faulty variant: fsel >= BCM2835_FSEL_GPIO_OUT is refused.
get_direction_ret_ge(g) ==
    IF g.res # "ok" THEN g.res
    ELSE IF WordVal(g.v) >= BCM2835_FSEL_GPIO_OUT THEN "ENOTSUPP"
    ELSE IF g.v = GpioIn THEN "In" ELSE "Out"

\* What get_direction makes of the outcome g of bcm2835_pinctrl_fsel_get.
get_direction_ret(g) ==
    IF g.res # "ok" THEN g.res
    ELSE IF WordVal(g.v) > BCM2835_FSEL_GPIO_OUT THEN "ENOTSUPP"
    ELSE IF g.v = GpioIn THEN "In" ELSE "Out"

\* Faulty variant: the word is not shifted, bit 0 is tested.
get_bit_ret_noshift(r, offset) ==
    IF r.res # "ok" THEN r.res
    ELSE IF And(r.v, bit(0)) # {} THEN "true"
    ELSE "false"

\* What bcm2835_gpio_get_bit makes of the outcome r of the read.
get_bit_ret(r, offset) ==
    IF r.res # "ok" THEN r.res
    ELSE IF And(Shr(r.v, GPIO_REG_SHIFT(offset)), bit(0)) # {} THEN "true"
    ELSE "false"

\* Faulty variant: set() hands the outcome on.
set_ret_propagated(r) == r

\* set() drops the outcome r of its call: let _ = ...
set_ret(r) == "unit"

\* What the operation op returns when its function-select step ends with r.
OpRet(op, r) == IF op = "set" THEN set_ret(r) ELSE r

(***************************************************************************)
(* Initial states.                                                         *)
(***************************************************************************)
\* A function-select word whose field j0 holds code a, whose other fields
\* hold code b and whose two unused top bits hold the low two bits of b.
FselWord(j0, a, b) ==
    UNION {Shl(U32(IF j = j0 THEN a ELSE b), 3 * j) : j \in 0 .. 10}

\* A level word with every second bit set, starting at bit l.
LevWord(l) == {i \in Bits : i % 2 = l}

NoFrame ==
    [op |-> "none", offset |-> 0, value |-> FALSE, pin |-> 0, fsel |-> {}, val |-> {}]

\* The 3-bit field of pin p in the function-select word w, as a word.
FieldOf(w, p) ==
    {x - 3 * (p % 10) : x \in {y \in w : y \in (3 * (p % 10)) .. (3 * (p % 10) + 2)}}

\* The function code pin p holds in the hardware.
Code(p) == FieldOf(regs[4 * (p \div 10)], p)

\* The code the other pins start with when the line starts with code a: its
\* complement, so that over the initial states every bit of a neighbouring
\* field is 0 and is 1, and differs from the bit of the line's field.
OtherCode(a) == BCM2835_FSEL_MASK - a

\* The hardware with pin p at code a, every other pin at OtherCode(a), and
\* the level words with every second bit set, starting at bit a % 2, and the
\* output latches with the other half of the bits set.
InitHw(p, a) ==
    /\ regs = [r \in FselRegs \cup LevRegs |->
                 IF r \in LevRegs THEN LevWord(a % 2)
                 ELSE IF r = 4 * (p \div 10)
                      THEN FselWord(p % 10, a, OtherCode(a))
                      ELSE FselWord(10, OtherCode(a), OtherCode(a))]
    /\ latch = [k \in {GPIO_REG_OFFSET(q) : q \in Pins} |-> LevWord(1 - (a % 2))]
    /\ present = TRUE

\* What is remembered of the operation a consumer ran before the current one.
Summary(f, r) == [op |-> f.op, pin |-> f.pin, fsel |-> f.fsel, ret |-> r]

\* The hardware now, and the operation consumer t ran last.
Snapshot(t) ==
    [regs |-> regs, latch |-> latch, present |-> present,
     prev |-> Summary(frame[t], ret[t])]

InitConsumers ==
    /\ pc = [t \in Consumers |-> "idle"]
    /\ frame = [t \in Consumers |-> NoFrame]
    /\ ret = [t \in Consumers |-> "none"]
    /\ log = [t \in Consumers |-> <<>>]
    /\ snap = [t \in Consumers |->
                 [regs |-> regs, latch |-> latch, present |-> present,
                  prev |-> Summary(NoFrame, "none")]]
    /\ ncalls = [t \in Consumers |-> 0]
    /\ expect = [q \in Pins |-> Code(q)]

Init ==
    \E p \in Pins, a \in Codes :
        /\ InitHw(p, a)
        /\ line = [t \in Consumers |-> p]
        /\ InitConsumers

(***************************************************************************)
(* Steps of a chip operation.                                              *)
(***************************************************************************)
Access(acc, reg, val, res) == [acc |-> acc, reg |-> reg, val |-> val, res |-> res]

\* Consumer t enters an operation with frame f at its first register access.
Enter(t, f, first) ==
    /\ pc[t] = "idle"
    /\ ncalls[t] < MaxCalls
    /\ pc' = [pc EXCEPT ![t] = first]
    /\ frame' = [frame EXCEPT ![t] = f]
    /\ ret' = [ret EXCEPT ![t] = "none"]
    /\ log' = [log EXCEPT ![t] = <<>>]
    /\ snap' = [snap EXCEPT ![t] = Snapshot(t)]
    /\ ncalls' = [ncalls EXCEPT ![t] = @ + 1]
    /\ UNCHANGED <<regs, latch, present, line, expect>>

\* Consumer t leaves its operation with result r.
Leave(t, r) ==
    /\ pc' = [pc EXCEPT ![t] = "idle"]
    /\ ret' = [ret EXCEPT ![t] = r]

\* bcm2835_gpio_wr(reg, val) by consumer t with outcome res.
Write(t, reg, val, res) ==
    /\ regs' = IF res = "ok" THEN HwWriteRegs(reg, val) ELSE regs
    /\ latch' = IF res = "ok" THEN HwWriteLatch(reg, val) ELSE latch
    /\ log' = [log EXCEPT ![t] = Append(@, Access("wr", reg, val, res))]

\* bcm2835_gpio_rd(reg) by consumer t with outcome r.
Read(t, reg, r) ==
    /\ log' = [log EXCEPT ![t] = Append(@, Access("rd", reg, r.v, r.res))]
    /\ UNCHANGED <<regs, latch>>

\* A direction change that succeeded is what the pin is expected to hold.
Expect(f, r) ==
    IF r = "Ok" /\ f.op \in {"direction_input", "direction_output"}
    THEN [expect EXCEPT ![f.offset] = f.fsel]
    ELSE expect

get_direction(t) ==
    /\ pc[t] = "idle"
    /\ Enter(t, [NoFrame EXCEPT !.op = "get_direction", !.offset = line[t],
                             !.pin = line[t]], "fsel_get")

\* get_direction: bcm2835_pinctrl_fsel_get and the direction it stands for.
fsel_get_rd(t) ==
    /\ pc[t] = "fsel_get"
    /\ Read(t, FSEL_REG(frame[t].pin), bcm2835_gpio_rd(FSEL_REG(frame[t].pin)))
    /\ Leave(t, get_direction_ret(bcm2835_pinctrl_fsel_get(frame[t].pin)))
    /\ UNCHANGED <<present, line, frame, snap, ncalls, expect>>

direction_input(t) ==
    /\ pc[t] = "idle"
    /\ Enter(t, [NoFrame EXCEPT !.op = "direction_input", !.offset = line[t],
                             !.pin = line[t],
                             !.fsel = GpioIn], "fsel_rd")

direction_output(t, value) ==
    /\ pc[t] = "idle"
    /\ Enter(t, [NoFrame EXCEPT !.op = "direction_output", !.offset = line[t],
                             !.value = value], "set_bit")

\* direction_output: bcm2835_gpio_set_bit, then on to bcm2835_pinctrl_fsel_set.
set_bit_wr(t) ==
    LET f   == frame[t]
        reg == set_bit_reg(level_reg(f.value), f.offset)
        res == bcm2835_gpio_wr(reg)
    IN  /\ pc[t] = "set_bit"
        /\ Write(t, reg, set_bit_val(f.offset), res)
        /\ IF set_bit_ok(res)
           THEN /\ pc' = [pc EXCEPT ![t] = "fsel_rd"]
                /\ frame' = [frame EXCEPT ![t].pin = f.offset,
                                          ![t].fsel = GpioOut]
                /\ UNCHANGED ret
           ELSE /\ Leave(t, res)
                /\ UNCHANGED frame
        /\ UNCHANGED <<present, line, snap, ncalls, expect>>

\* set: bcm2835_pinctrl_fsel_set(data, reg, offset).
set(t, value) ==
    /\ pc[t] = "idle"
    /\ Enter(t, [NoFrame EXCEPT !.op = "set", !.offset = line[t], !.value = value,
                             !.pin = level_reg(value),
                             !.fsel = U32(line[t])], "fsel_rd")

get(t) ==
    /\ pc[t] = "idle"
    /\ Enter(t, [NoFrame EXCEPT !.op = "get", !.offset = line[t]], "get_bit")

\* get: bcm2835_gpio_get_bit(data, GPLEV0, offset).
get_bit_rd(t) ==
    LET f   == frame[t]
        reg == GPLEV0 + GPIO_REG_OFFSET(f.offset) * 4
        r   == bcm2835_gpio_rd(reg)
    IN  /\ pc[t] = "get_bit"
        /\ Read(t, reg, r)
        /\ Leave(t, get_bit_ret(r, f.offset))
        /\ UNCHANGED <<present, line, frame, snap, ncalls, expect>>

\* bcm2835_pinctrl_fsel_set: the read, the comparison and the choice of path.
fsel_rd(t) ==
    LET f   == frame[t]
        r   == bcm2835_gpio_rd(FSEL_REG(f.pin))
        cur == fsel_cur(r.v, f.pin)
    IN  /\ pc[t] = "fsel_rd"
        /\ Read(t, FSEL_REG(f.pin), r)
        /\ IF r.res # "ok"
           THEN /\ Leave(t, OpRet(f.op, r.res))
                /\ UNCHANGED <<frame, expect>>
           ELSE IF fsel_same(cur, f.fsel)
           THEN /\ Leave(t, OpRet(f.op, "Ok"))
                /\ frame' = [frame EXCEPT ![t].val = r.v]
                /\ expect' = Expect(f, "Ok")
           ELSE IF fsel_needs_trans(cur, f.fsel)
           THEN /\ pc' = [pc EXCEPT ![t] = "fsel_trans"]
                /\ frame' = [frame EXCEPT ![t].val = fsel_trans_val(r.v, f.pin, f.fsel)]
                /\ UNCHANGED <<ret, expect>>
           ELSE /\ pc' = [pc EXCEPT ![t] = "fsel_fin"]
                /\ frame' = [frame EXCEPT ![t].val = r.v]
                /\ UNCHANGED <<ret, expect>>
        /\ UNCHANGED <<present, line, snap, ncalls>>

\* bcm2835_pinctrl_fsel_set: the write of the transition step.
fsel_trans_wr(t) ==
    LET f   == frame[t]
        res == bcm2835_gpio_wr(FSEL_REG(f.pin))
    IN  /\ pc[t] = "fsel_trans"
        /\ Write(t, FSEL_REG(f.pin), f.val, res)
        /\ IF trans_wr_ok(res)
           THEN /\ pc' = [pc EXCEPT ![t] = "fsel_fin"]
                /\ UNCHANGED ret
           ELSE Leave(t, OpRet(f.op, res))
        /\ UNCHANGED <<present, line, frame, snap, ncalls, expect>>

\* bcm2835_pinctrl_fsel_set: the final write.
fsel_fin_wr(t) ==
    LET f   == frame[t]
        val == fsel_merge(f.val, f.pin, f.fsel)
        res == bcm2835_gpio_wr(FSEL_REG(f.pin))
        r   == IF res = "ok" THEN "Ok" ELSE res
    IN  /\ pc[t] = "fsel_fin"
        /\ Write(t, FSEL_REG(f.pin), val, res)
        /\ Leave(t, OpRet(f.op, r))
        /\ frame' = [frame EXCEPT ![t].val = val]
        /\ expect' = Expect(f, r)
        /\ UNCHANGED <<present, line, snap, ncalls>>

\* The device goes away: its resources are revoked.
Revoke ==
    /\ present
    /\ present' = FALSE
    /\ UNCHANGED <<regs, latch, line, pc, frame, ret, log, snap, ncalls, expect>>

Step(t) ==
    \/ fsel_get_rd(t)
    \/ set_bit_wr(t)
    \/ get_bit_rd(t)
    \/ fsel_rd(t)
    \/ fsel_trans_wr(t)
    \/ fsel_fin_wr(t)

ChipOp(t) ==
    \/ get_direction(t)
    \/ direction_input(t)
    \/ \E value \in BOOLEAN : direction_output(t, value)
    \/ \E value \in BOOLEAN : set(t, value)
    \/ get(t)

\* One consumer, the operations of the chip on its line one after another.
Next ==
    \/ ChipOp(1)
    \/ Step(1)
    \/ Revoke

Spec == Init /\ [][Next]_vars

(***************************************************************************)
(* The function selector on its own: bcm2835_pinctrl_fsel_set called with  *)
(* every function code on the consumer's line.                             *)
(***************************************************************************)
bcm2835_pinctrl_fsel_set(t, fsel) ==
    /\ pc[t] = "idle"
    /\ Enter(t, [NoFrame EXCEPT !.op = "fsel_set", !.offset = line[t],
                                !.pin = line[t], !.fsel = U32(fsel)], "fsel_rd")

NextFsel ==
    \/ \E fsel \in Codes : bcm2835_pinctrl_fsel_set(1, fsel)
    \/ fsel_rd(1)
    \/ fsel_trans_wr(1)
    \/ fsel_fin_wr(1)
    \/ Revoke

SpecFsel == Init /\ [][NextFsel]_vars

(***************************************************************************)
(* Two consumers on neighbouring lines of one function-select word, each   *)
(* changing the direction of its line, their register accesses interleaved *)
(* in any order: the driver takes no lock.                                 *)
(***************************************************************************)
\* Direction changes the two consumers invoke, together, in a concurrent
\* behaviour.
MaxConcCalls == 2

ConcCalls == ncalls[1] + ncalls[2]

\* Codes the first line starts with in a concurrent behaviour: Input, and two
\* alternate functions whose complements are Output and an alternate function.
ConcCodes == {0, 3, 6}

InitConc ==
    \E p \in Pins, a \in ConcCodes :
        /\ p + 1 \in Pins
        /\ FSEL_REG(p + 1) = FSEL_REG(p)
        /\ InitHw(p, a)
        /\ line = [t \in Consumers |-> p + (t - 1)]
        /\ InitConsumers

NextConc ==
    \E t \in Consumers :
        \/ ConcCalls < MaxConcCalls /\ direction_input(t)
        \/ \E value \in BOOLEAN :
               ConcCalls < MaxConcCalls /\ direction_output(t, value)
        \/ set_bit_wr(t)
        \/ fsel_rd(t)
        \/ fsel_trans_wr(t)
        \/ fsel_fin_wr(t)

SpecConc == InitConc /\ [][NextConc]_vars

(***************************************************************************)
(* The operations of the chip invoked with an offset past the last line:   *)
(* offset is a u32 and no operation compares it with BCM2835_NUM_GPIOS.    *)
(***************************************************************************)
\* The offsets past the last line whose field FSEL_REG and FSEL_SHIFT place
\* in the reserved bits of the last function-select register.
BeyondPins ==
    {p \in BCM2835_NUM_GPIOS .. (2 * WordBits - 1) : FSEL_REG(p) \in FselRegs}

InitBeyond ==
    \E p \in BeyondPins, a \in Codes :
        /\ InitHw(p, a)
        /\ line = [t \in Consumers |-> p]
        /\ InitConsumers

SpecBeyond == InitBeyond /\ [][Next]_vars

(***************************************************************************)
(* What the properties speak of.                                           *)
(***************************************************************************)
\* Consumer t has returned from an operation.
Returned(t) == pc[t] = "idle" /\ frame[t].op # "none"

\* Every register access of t's operation so far reached the hardware.
AllOk(t) == \A i \in 1 .. Len(log[t]) : log[t][i].res = "ok"

IsRead(e) == e.acc = "rd" /\ e.res = "ok"

IsWrite(e) == e.acc = "wr" /\ e.res = "ok"

\* The reads and the writes of t's operation that reached the hardware.
Reads(t) == SelectSeq(log[t], IsRead)

Writes(t) == SelectSeq(log[t], IsWrite)

IsFselAccess(e) == e.reg \in FselRegs

\* The accesses, and the writes, t's operation made to function-select words.
FselLog(t) == SelectSeq(log[t], IsFselAccess)

FselWrites(t) == SelectSeq(Writes(t), IsFselAccess)

\* The operations that run bcm2835_pinctrl_fsel_set.
FselOps == {"direction_input", "direction_output", "set", "fsel_set"}

\* t ran bcm2835_pinctrl_fsel_set to its end without a failed access; the
\* code the pin had is the one in the word the call read first.
FselSetRan(t) ==
    /\ Returned(t)
    /\ frame[t].op \in FselOps
    /\ AllOk(t)
    /\ FselLog(t) # <<>>

FselCurAtEntry(t) == FieldOf(FselLog(t)[1].val, frame[t].pin)

\* C1: bcm2835_pinctrl_fsel_set from an active code to another active code
\* makes exactly two function-select writes, the first with Input in the
\* pin's field, the second with the target.
C1_ThroughInput ==
    \A t \in Consumers :
        ( /\ FselSetRan(t)
          /\ frame[t].pin \in Pins
          /\ frame[t].fsel \in CodeWords
          /\ frame[t].fsel # GpioIn
          /\ FselCurAtEntry(t) \notin {GpioIn, frame[t].fsel} )
        => /\ Len(FselWrites(t)) = 2
           /\ \A i \in 1 .. 2 : FselWrites(t)[i].reg = 4 * (frame[t].pin \div 10)
           /\ FieldOf(FselWrites(t)[1].val, frame[t].pin) = GpioIn
           /\ FieldOf(FselWrites(t)[2].val, frame[t].pin) = frame[t].fsel

\* C2: set(pin, level) makes exactly one register write, of 1 << (pin % 32)
\* to GPSET0 + 4 * (pin / 32) or GPCLR0 + 4 * (pin / 32) as the level says.
C2_SetWritesOneBit ==
    \A t \in Consumers :
        (Returned(t) /\ frame[t].op = "set" /\ AllOk(t))
        => /\ Len(Writes(t)) = 1
           /\ Writes(t)[1].reg =
                  (IF frame[t].value THEN GPSET0 ELSE GPCLR0)
                      + 4 * (frame[t].offset \div 32)
           /\ Writes(t)[1].val = {frame[t].offset % 32}

\* C3: with the operations run one after another and none of them failing,
\* every pin reads back the code of the last successful direction change on
\* it, or its initial code.
C3_ReadBackLastWritten ==
    (present /\ \A t \in Consumers : pc[t] = "idle")
    => \A p \in Pins : Code(p) = expect[p]

\* The bits of the function-select word of pin p outside p's field.
OtherBits(w, p) == w \ ((3 * (p % 10)) .. (3 * (p % 10) + 2))

\* t is in, or has returned from, bcm2835_pinctrl_fsel_set(p, f) with p a
\* pin and f a function code.
InFselSet(t) ==
    /\ frame[t].op \in FselOps
    /\ frame[t].pin \in Pins
    /\ frame[t].fsel \in CodeWords
    /\ FselLog(t) # <<>>
    /\ FselLog(t)[1].res = "ok"

\* C4: every word bcm2835_pinctrl_fsel_set(p, f) writes, f a function code,
\* goes to p's function-select register and equals the word the call read
\* at its start outside p's 3-bit field.
C4_Isolation ==
    \A t \in Consumers :
        InFselSet(t)
        => \A i \in 1 .. Len(FselLog(t)) :
               FselLog(t)[i].acc = "wr"
               => /\ FselLog(t)[i].reg = 4 * (frame[t].pin \div 10)
                  /\ OtherBits(FselLog(t)[i].val, frame[t].pin)
                         = OtherBits(FselLog(t)[1].val, frame[t].pin)

\* A call changed the code of a pin whose neighbours hold other bits, with a
\* transition write and a final write.
C4_Witness ==
    /\ InFselSet(1)
    /\ Returned(1)
    /\ Len(FselWrites(1)) = 2
    /\ OtherBits(FselLog(1)[1].val, frame[1].pin) # {}
    /\ Not(OtherBits(FselLog(1)[1].val, frame[1].pin)) # {}
    /\ frame[1].fsel \notin {GpioIn, GpioOut}

\* C5: two direction changes on distinct pins of one function-select word,
\* run concurrently, both returned with success: each pin holds the code
\* requested for it.
C5_NoLostUpdate ==
    ( /\ line[1] # line[2]
      /\ FSEL_REG(line[1]) = FSEL_REG(line[2])
      /\ \A t \in Consumers : Returned(t) /\ ret[t] = "Ok" /\ ncalls[t] = 1 )
    => \A t \in Consumers : Code(line[t]) = frame[t].fsel

\* The level write direction_output(pin, value) is to make.
IsLevelWrite(e, pin, value) ==
    /\ e.acc = "wr"
    /\ e.reg = (IF value THEN 28 ELSE 40) + 4 * (pin \div 32)
    /\ e.val = {pin % 32}

\* C6: in direction_output the first register access is the write of
\* 1 << (pin % 32) to the set or the clear register of the pin's bank, and
\* every access to a function-select word comes after that write has
\* reached the hardware: while it has not, the pin's code is the one it had.
C6_LevelBeforeDrive ==
    \A t \in Consumers :
        frame[t].op = "direction_output"
        => /\ log[t] # <<>> => IsLevelWrite(log[t][1], frame[t].offset, frame[t].value)
           /\ \A i \in 1 .. Len(log[t]) :
                  log[t][i].reg \in FselRegs => i > 1 /\ log[t][1].res = "ok"
           /\ Writes(t) = <<>> => regs = snap[t].regs

\* direction_output(pin, TRUE) returned with success after it wrote the
\* level and then the function-select word.
C6_Witness ==
    /\ Returned(1)
    /\ frame[1].op = "direction_output"
    /\ frame[1].value
    /\ ret[1] = "Ok"
    /\ Len(log[1]) >= 3
    /\ Code(frame[1].offset) = {0}
    /\ snap[1].regs # regs

\* The number of the code pin p held when t's operation was invoked.
CodeAtEntry(t, p) == WordVal(FieldOf(snap[t].regs[4 * (p \div 10)], p))

C8_Idempotent ==
    \A t \in Consumers :
        /\ (InFselSet(t) /\ FieldOf(FselLog(t)[1].val, frame[t].pin) = frame[t].fsel)
           => /\ Returned(t)
              /\ ret[t] = "Ok"
              /\ Len(log[t]) = 1
              /\ regs = snap[t].regs
        /\ ( /\ InFselSet(t)
             /\ frame[t].op = "fsel_set"
             /\ snap[t].prev = Summary(frame[t], "Ok") )
           => /\ Returned(t)
              /\ ret[t] = "Ok"
              /\ Writes(t) = <<>>
              /\ regs = snap[t].regs

\* The second of two calls set(p, f); set(p, f), f an alternate function the
\* first call had to write, has returned.
C8_Witness ==
    /\ Returned(1)
    /\ frame[1].op = "fsel_set"
    /\ snap[1].prev = Summary(frame[1], "Ok")
    /\ frame[1].fsel = {0, 2}
    /\ ret[1] = "Ok"
    /\ Code(frame[1].pin) = {0, 2}
    /\ expect[frame[1].pin] # {0, 2}

\* C9: an operation invoked with the register window gone reaches no
\* register, leaves the hardware as it was and, when it returns a result,
\* returns ENXIO.
C9_NoWindow ==
    \A t \in Consumers :
        (frame[t].op # "none" /\ ~snap[t].present)
        => /\ \A i \in 1 .. Len(log[t]) : log[t][i].res = "ENXIO"
           /\ Len(log[t]) <= 1
           /\ regs = snap[t].regs /\ latch = snap[t].latch
           /\ Returned(t) => ret[t] = (IF frame[t].op = "set" THEN "unit" ELSE "ENXIO")

\* direction_output invoked with the window gone has returned ENXIO.
C9_Witness ==
    /\ Returned(1)
    /\ ~snap[1].present
    /\ frame[1].op = "direction_output"
    /\ ret[1] = "ENXIO"
    /\ Len(log[1]) = 1

\* A register access of t's operation failed.
Failed(t) == \E i \in 1 .. Len(log[t]) : log[t][i].res # "ok"

C11_AbortNoRollback ==
    \A t \in Consumers :
        (frame[t].op = "fsel_set" /\ Failed(t))
        => /\ Returned(t)
           /\ \A i \in 1 .. Len(log[t]) :
                  log[t][i].res # "ok"
                  => i = Len(log[t]) /\ ret[t] = log[t][i].res
           /\ log[t][1].res # "ok"
              => Len(log[t]) = 1 /\ regs = snap[t].regs /\ latch = snap[t].latch
           /\ Len(Writes(t)) <= 1
           /\ \A i \in 1 .. Len(log[t]) :
                  IsWrite(log[t][i]) => regs[log[t][i].reg] = log[t][i].val
           /\ Writes(t) = <<>> => regs = snap[t].regs

\* The window went between the transition write, which landed and changed the
\* word, and the final write, which failed.
C11_Witness ==
    /\ Returned(1)
    /\ frame[1].op = "fsel_set"
    /\ Len(log[1]) = 3
    /\ IsWrite(log[1][2])
    /\ log[1][3].res = "ENXIO"
    /\ ret[1] = "ENXIO"
    /\ regs[log[1][2].reg] = log[1][2].val
    /\ regs[log[1][2].reg] # snap[1].regs[log[1][2].reg]

\* C12: for the line p of every consumer, a pin below 54, FSEL_REG(p) is
\* word-aligned and in [0x00, 0x18), FSEL_SHIFT(p) is one of 0, 3, ..., 27 so
\* that the field ends inside the 32-bit word, GPIO_REG_SHIFT(p) is in
\* [0, 32), every bank address base + 4 * GPIO_REG_OFFSET(p) is word-aligned
\* and ends inside GPIO_SIZE, pin 35 gives 0xC, 15, 0x38 and 3, and every
\* register access the consumer has made is word-aligned, inside the window
\* and was not refused for its offset.
C12_CodecBounds ==
    \A t \in Consumers :
        LET p == line[t]
        IN  /\ p \in 0 .. 53
            /\ FSEL_REG(p) % 4 = 0
            /\ FSEL_REG(p) >= 0 /\ FSEL_REG(p) < 24
            /\ FSEL_SHIFT(p) \in {3 * j : j \in 0 .. 9}
            /\ FSEL_SHIFT(p) + 3 <= 32
            /\ GPIO_REG_SHIFT(p) \in 0 .. 31
            /\ \A base \in {GPSET0, GPCLR0, GPLEV0} :
                   /\ (base + 4 * GPIO_REG_OFFSET(p)) % 4 = 0
                   /\ base + 4 * GPIO_REG_OFFSET(p) + 4 <= GPIO_SIZE
            /\ p = 35 => /\ FSEL_REG(p) = 12
                         /\ FSEL_SHIFT(p) = 15
                         /\ GPLEV0 + 4 * GPIO_REG_OFFSET(p) = 56
                         /\ GPIO_REG_SHIFT(p) = 3
            /\ \A i \in 1 .. Len(log[t]) :
                   /\ log[t][i].reg % 4 = 0
                   /\ log[t][i].reg >= 0
                   /\ log[t][i].reg + 4 <= 4096
                   /\ log[t][i].res # "EINVAL"

\* direction_output on pin 35 has made its accesses: the level write to
\* GPSET1 or GPCLR1, and the read and the write of GPFSEL3.
C12_Witness ==
    /\ line[1] = 35
    /\ Returned(1)
    /\ frame[1].op = "direction_output"
    /\ ret[1] = "Ok"
    /\ Len(log[1]) >= 3
    /\ log[1][1].reg \in {32, 44}
    /\ log[1][2].reg = 12
    /\ log[1][Len(log[1])].acc = "wr"

\* The register get(pin) is to read: GPLEV0 + 4 * (pin / 32).
LevelRegOf(p) == 52 + 4 * (p \div 32)

\* C13: get(pin) with the window present made exactly one register access, a
\* read of GPLEV0 + 4 * (pin / 32), wrote nothing, and returned true exactly
\* when bit pin % 32 of the word in that register is 1.
C13_GetLevel ==
    \A t \in Consumers :
        (Returned(t) /\ frame[t].op = "get" /\ snap[t].present /\ AllOk(t))
        => LET p == frame[t].offset
           IN  /\ p \in Pins
               /\ Len(log[t]) = 1
               /\ log[t][1].acc = "rd"
               /\ log[t][1].reg = LevelRegOf(p)
               /\ log[t][1].val = snap[t].regs[LevelRegOf(p)]
               /\ regs = snap[t].regs /\ latch = snap[t].latch
               /\ ret[t] \in {"true", "false"}
               /\ ret[t] = "true" <=> (p % 32) \in snap[t].regs[LevelRegOf(p)]

\* get on a pin of the second bank returned true: bit pin % 32 of GPLEV1 is 1
\* and bit 0 is not.
C13_Witness ==
    /\ Returned(1)
    /\ frame[1].op = "get"
    /\ frame[1].offset >= 32
    /\ ret[1] = "true"
    /\ log[1][1].reg = 56
    /\ 0 \notin log[1][1].val

\* The code pin p held when t's operation was entered, as a word.
FieldAtEntry(t, p) == FieldOf(snap[t].regs[4 * (p \div 10)], p)

\* C14: bcm2835_pinctrl_fsel_set(p, target) entered with a current code other
\* than target, one of the two being Input, and run with the window present,
\* made exactly one read and exactly one write, both of p's function-select
\* word, and the word written, which is the word the register now holds, has
\* target in p's field.
C14_SingleWrite ==
    \A t \in Consumers :
        (/\ Returned(t) /\ frame[t].op = "fsel_set" /\ AllOk(t)
         /\ FieldAtEntry(t, frame[t].pin) # frame[t].fsel
         /\ FieldAtEntry(t, frame[t].pin) = {} \/ frame[t].fsel = {})
        => LET p == frame[t].pin
           IN  /\ p \in Pins
               /\ ret[t] = "Ok"
               /\ Len(log[t]) = 2
               /\ Len(Reads(t)) = 1 /\ Len(Writes(t)) = 1
               /\ log[t][1].acc = "rd" /\ log[t][1].reg = 4 * (p \div 10)
               /\ log[t][2].acc = "wr" /\ log[t][2].reg = 4 * (p \div 10)
               /\ FieldOf(log[t][2].val, p) = frame[t].fsel
               /\ regs[4 * (p \div 10)] = log[t][2].val

\* Input -> Alt0 (code 4) has been made with one write.
C14_Witness ==
    /\ Returned(1)
    /\ frame[1].op = "fsel_set"
    /\ FieldAtEntry(1, frame[1].pin) = {}
    /\ frame[1].fsel = {2}
    /\ ret[1] = "Ok"
    /\ Len(Writes(1)) = 1
    /\ Code(frame[1].pin) = {2}

\* C15: get_direction(p) run with the window present right after
\* direction_input(p) returns Input, and right after direction_output(p, v)
\* returns Output, whatever code p held before; the direction change before
\* it returned Ok.
C15_RoundTrip ==
    \A t \in Consumers :
        (/\ Returned(t) /\ frame[t].op = "get_direction" /\ AllOk(t)
         /\ snap[t].prev.op \in {"direction_input", "direction_output"})
        => /\ frame[t].pin = snap[t].prev.pin
           /\ snap[t].prev.ret = "Ok"
           /\ snap[t].prev.op = "direction_input" => ret[t] = "In"
           /\ snap[t].prev.op = "direction_output" => ret[t] = "Out"

\* Pin 35 started with the alternate code 4 (its neighbour 36 holds the
\* complement, 3), was made an output, and get_direction returned Output.
C15_Witness ==
    /\ line[1] = 35
    /\ Returned(1)
    /\ frame[1].op = "get_direction"
    /\ snap[1].prev.op = "direction_output"
    /\ FieldOf(regs[12], 36) = {0, 1}
    /\ ret[1] = "Out"

\* C16: an operation of the chip invoked with an offset of 54 or more reads
\* and writes no register, and what it returns is an error.
C16_BeyondRejected ==
    \A t \in Consumers :
        (frame[t].op # "none" /\ frame[t].offset >= 54)
        => /\ Reads(t) = <<>> /\ Writes(t) = <<>>
           /\ regs = snap[t].regs /\ latch = snap[t].latch
           /\ Returned(t) => ret[t] \in {"EINVAL", "ENXIO"}

\* The latched output level of pin q.
LatchBit(q) == (q % 32) \in latch[q \div 32]

\* C17: in every step of two consumers working on different pins, the level
\* write of direction_output(p, v) writes the word with bit p % 32 alone and
\* leaves the latched level of p at v, and the latched level of a pin changes
\* only in the level write of a direction_output on that very pin.
C17_LevelFrame ==
    [][/\ \A t \in Consumers :
              (pc[t] = "set_bit" /\ pc'[t] # "set_bit")
              => /\ frame[t].op = "direction_output"
                 /\ log'[t][1].acc = "wr"
                 /\ log'[t][1].val = {frame[t].offset % 32}
                 /\ LatchBit(frame[t].offset)' = frame[t].value
       /\ \A q \in Pins :
              (LatchBit(q)' # LatchBit(q))
              => \E t \in Consumers :
                     /\ pc[t] = "set_bit" /\ pc'[t] # "set_bit"
                     /\ frame[t].offset = q]_vars

\* Both consumers are past the level write of a direction_output, the first
\* has raised its pin's latch and the second has lowered its own.
C17_Witness ==
    /\ frame[1].op = "direction_output" /\ frame[1].value
    /\ frame[2].op = "direction_output" /\ ~frame[2].value
    /\ pc[1] # "set_bit" /\ pc[2] # "set_bit"
    /\ line[1] # line[2]
    /\ LatchBit(line[1]) /\ ~LatchBit(line[2])
    /\ (line[1] % 32) \notin snap[1].latch[line[1] \div 32]
    /\ (line[2] % 32) \in snap[2].latch[line[2] \div 32]

\* C18: when the level write of direction_output(pin, v) fails, the operation
\* has returned the error of that write, the failed write is its only
\* register access, none was made to a function-select register, and the
\* registers, the pin's function code among them, and the latches are as
\* they were.
C18_LevelWriteFails ==
    \A t \in Consumers :
        (/\ frame[t].op = "direction_output"
         /\ Len(log[t]) >= 1
         /\ log[t][1].res # "ok")
        => /\ Returned(t)
           /\ ret[t] = log[t][1].res
           /\ Len(log[t]) = 1
           /\ log[t][1].acc = "wr"
           /\ log[t][1].reg \in {28, 32, 40, 44}
           /\ FselLog(t) = <<>>
           /\ regs = snap[t].regs /\ latch = snap[t].latch
           /\ Code(frame[t].offset) = FieldAtEntry(t, frame[t].offset)

\* direction_output was entered with the window present, the window went
\* before the level write, and the operation returned ENXIO.
C18_Witness ==
    /\ Returned(1)
    /\ frame[1].op = "direction_output"
    /\ snap[1].present /\ ~present
    /\ Len(log[1]) = 1
    /\ log[1][1].res = "ENXIO"
    /\ ret[1] = "ENXIO"
    /\ Code(line[1]) # {0}

\* The register family the i-th access of t's operation belongs to, by the
\* helper that makes it: bcm2835_gpio_get_bit in get, bcm2835_gpio_set_bit
\* first in direction_output, the function selector everywhere else.
FamilyOf(t, i) ==
    IF frame[t].op = "get" THEN LevRegs
    ELSE IF frame[t].op = "direction_output" /\ i = 1
         THEN (IF frame[t].value THEN SetRegs ELSE ClrRegs)
         ELSE FselRegs

\* C19: the offsets of the function-select, output-set, output-clear and
\* level registers of the pins below 54 are four pairwise disjoint sets, and
\* every register access of an operation is to a register of the family of
\* the helper that makes it and of no other family.
C19_NoAlias ==
    /\ \A F, G \in {FselRegs, SetRegs, ClrRegs, LevRegs} : F # G => F \cap G = {}
    /\ Cardinality({FselRegs, SetRegs, ClrRegs, LevRegs}) = 4
    /\ \A t \in Consumers :
           \A i \in 1 .. Len(log[t]) :
               /\ log[t][i].reg \in FamilyOf(t, i)
               /\ \A G \in {FselRegs, SetRegs, ClrRegs, LevRegs} :
                      G # FamilyOf(t, i) => log[t][i].reg \notin G

\* direction_output on the last pin has written GPSET1 and then read and
\* written GPFSEL5.
C19_Witness ==
    /\ line[1] = 53
    /\ Returned(1)
    /\ frame[1].op = "direction_output" /\ frame[1].value
    /\ ret[1] = "Ok"
    /\ log[1][1].reg = 32
    /\ log[1][2].reg = 20
    /\ log[1][Len(log[1])].reg = 20

====
